---------------------------- MODULE Spec2Model ----------------------------
(***************************************************************************)
(* A model of the WikiPortraits image-usage analysis (src/imageusage.py,   *)
(* src/wikidata_utils.py, src/wiki_api_client.py).                         *)
(*                                                                         *)
(* Text is modelled as sequences of one-character strings, so that the     *)
(* matchers are computed character by character as Python computes them.   *)
(* The MediaWiki and Wikidata APIs are the environment: every response is  *)
(* drawn from a bounded set, and every request may fail.                   *)
(***************************************************************************)
EXTENDS Integers, Sequences, FiniteSets, Bags, TLC

(***************************************************************************)
(* The keys of the dicts and the fields of the records below.  Records     *)
(* list their fields in this (alphabetical) order throughout.              *)
(***************************************************************************)
FieldNames ==
    DOMAIN [ all_files |-> {}, api |-> {}, cat |-> {}, clock |-> {},
             consumed |-> {}, content |-> {}, continue |-> {},
             count |-> {}, current |-> {}, current_p18_value |-> {},
             depth |-> {}, earliest_rev_id |-> {}, earliest_ts |-> {},
             early |-> {}, error |-> {}, events |-> {}, fail_at |-> {},
             fail_cat |-> {}, failed |-> {}, fetched |-> {}, file |-> {},
             file_name |-> {}, files_used_on_wikipedias |-> {},
             first_image |-> {}, first_image_by_file |-> {},
             first_image_by_lang |-> {}, first_image_by_wiki |-> {},
             first_p18 |-> {}, first_p18_count |-> {}, fn |-> {},
             found_any |-> {}, from_wikidata |-> {}, gen |-> {},
             history |-> {}, image |-> {}, image_history |-> {},
             info |-> {}, introduced_revision_id |-> {},
             introduced_timestamp |-> {}, item |-> {}, item_api |-> {},
             kind |-> {}, language |-> {}, limit_wikis |-> {},
             members |-> {}, name |-> {}, none |-> {}, page |-> {},
             pages |-> {}, pending |-> {}, prefix |-> {},
             previous_p18_images |-> {}, processed_categories |-> {},
             raised |-> {}, reason |-> {}, replaced_p18_count |-> {},
             requests |-> {}, result |-> {}, revid |-> {},
             revision_id |-> {}, revisions |-> {}, skip_wikidata |-> {},
             status |-> {}, subcats |-> {}, text |-> {}, timestamp |-> {},
             timestamp_is_formatted |-> {}, title |-> {}, titles |-> {},
             total_usages_by_file |-> {}, total_usages_by_lang |-> {},
             total_usages_by_wiki |-> {}, usage |-> {},
             usage_by_wiki |-> {}, utc |-> {}, value |-> {}, wiki |-> {},
             wiki_pages_seen |-> {}, wikidata_image |-> {},
             wikidata_item |-> {}, wikidata_sourced_by_wiki |-> {},
             wikidata_sourced_count |-> {}, wikitext |-> {}, world |-> {},
             yield |-> {} ]

(***************************************************************************)
(* Bounds of the model.                                                    *)
(***************************************************************************)
\* longest file name (without prefix) handed to the matchers on their own
MaxNameLen == 2
\* longest free-form haystack handed to matches_file_in_wikitext on its own
MaxTextLen == 3
\* most revisions of one page history
MaxRevs == 3
\* most revisions of one Wikidata item history
MaxItemRevs == 3
\* revisions per API response (rvlimit=max)
BatchSize == 2
\* most usage events recorded by a statistics tracker on its own
MaxEvents == 3
\* most revisions of a page or item history in runs that tally several usages
MaxTallyRevs == 2
\* most subcategories one category lists, most subcategory links of a
\* category graph, and the deepest --depth
MaxSubcats == 2
MaxLinks == 4
MaxDepth == 2
\* in runs over several usages: most files, most usage entries per file, most
\* revisions of a page history and of an item history
MaxFiles == 2
MaxUsages == 2
MaxRunRevs == 1
MaxRunItemRevs == 1

(***************************************************************************)
(* Python str operations, on sequences of characters.                      *)
(***************************************************************************)
\* str.lower() on one character (the letters the model's texts use)
LowerChar(c) ==
    CASE c = "A" -> "a"
      [] c = "E" -> "e"
      [] c = "F" -> "f"
      [] c = "G" -> "g"
      [] c = "I" -> "i"
      [] c = "J" -> "j"
      [] c = "L" -> "l"
      [] c = "N" -> "n"
      [] c = "P" -> "p"
      [] c = "X" -> "x"
      [] c = "Y" -> "y"
      [] c = "Z" -> "z"
      [] OTHER -> c

\* str.upper() on one character (used only to vary the case of inputs)
UpperChar(c) ==
    CASE c = "a" -> "A"
      [] c = "e" -> "E"
      [] c = "f" -> "F"
      [] c = "g" -> "G"
      [] c = "i" -> "I"
      [] c = "j" -> "J"
      [] c = "l" -> "L"
      [] c = "n" -> "N"
      [] c = "p" -> "P"
      [] c = "x" -> "X"
      [] c = "y" -> "Y"
      [] c = "z" -> "Z"
      [] OTHER -> c

\* s.lower()
Lower(s) == [i \in 1..Len(s) |-> LowerChar(s[i])]

\* s.upper()
Upper(s) == [i \in 1..Len(s) |-> UpperChar(s[i])]

\* s.replace(old, new) for single characters old and new
ReplaceChar(s, old, new) == [i \in 1..Len(s) |-> IF s[i] = old THEN new ELSE s[i]]

\* s.startswith(p)
StartsWith(s, p) == Len(p) <= Len(s) /\ SubSeq(s, 1, Len(p)) = p

\* s.removeprefix(p)
RemovePrefix(s, p) == IF StartsWith(s, p) THEN SubSeq(s, Len(p) + 1, Len(s)) ELSE s

\* needle in hay
Contains(hay, needle) ==
    \E i \in 0..(Len(hay) - Len(needle)) : SubSeq(hay, i + 1, i + Len(needle)) = needle

\* s.replace(old, ""): every non-overlapping occurrence of old, left to right
RECURSIVE RemoveAll(_, _)
RemoveAll(s, old) ==
    IF Len(s) = 0 THEN <<>>
    ELSE IF Len(old) > 0 /\ StartsWith(s, old)
         THEN RemoveAll(SubSeq(s, Len(old) + 1, Len(s)), old)
         ELSE <<s[1]>> \o RemoveAll(Tail(s), old)

(***************************************************************************)
(* Literals of the program.                                                *)
(***************************************************************************)
\* "file:" (imageusage.py, matches_file_in_wikitext)
LowerFilePrefix == <<"f", "i", "l", "e", ":">>

\* "File:" (wikidata_utils.py, check_if_file_matches_wikidata_image)
FilePrefix == <<"F", "i", "l", "e", ":">>

\* IMAGE_EXTENSIONS
IMAGE_EXTENSIONS ==
    { <<".", "j", "p", "g">>, <<".", "j", "p", "e", "g">>, <<".", "p", "n", "g">>,
      <<".", "g", "i", "f">>, <<".", "t", "i", "f", "f">> }

(***************************************************************************)
(* The text matchers.                                                      *)
(***************************************************************************)
\* has_image_in_wikitext(content)
has_image_in_wikitext(content) ==
    LET content_lower == Lower(content)
    IN  \E ext \in IMAGE_EXTENSIONS : Contains(content_lower, ext)

\* matches_file_in_wikitext(content, file_name)
matches_file_in_wikitext(content, file_name) ==
    LET content_lower   == Lower(content)
        file_name_lower == RemovePrefix(Lower(file_name), LowerFilePrefix)
        fn_spaces       == ReplaceChar(file_name_lower, "_", " ")
        fn_underscores  == ReplaceChar(file_name_lower, " ", "_")
    IN  \E variant \in {file_name_lower, fn_spaces, fn_underscores} :
            Contains(content_lower, variant)

\* check_if_file_matches_wikidata_image(file_name, wikidata_image)
check_if_file_matches_wikidata_image(file_name, wikidata_image) ==
    LET commons_name         == Lower(RemoveAll(file_name, FilePrefix))
        wikidata_name        == Lower(wikidata_image)
        commons_spaces       == ReplaceChar(commons_name, "_", " ")
        commons_underscores  == ReplaceChar(commons_name, " ", "_")
        wikidata_spaces      == ReplaceChar(wikidata_name, "_", " ")
        wikidata_underscores == ReplaceChar(wikidata_name, " ", "_")
    IN  \/ commons_spaces = wikidata_spaces
        \/ commons_underscores = wikidata_underscores
        \/ commons_name = wikidata_name


(***************************************************************************)
(* Values.                                                                 *)
(***************************************************************************)
\* Python's None
None == [none |-> TRUE]

\* dict.get(key, default)
Get(d, key, default) == IF key \in DOMAIN d THEN d[key] ELSE default

\* Python truthiness of an optional str
Truthy(v) == v # None /\ v # <<>>

\* Python truthiness of an optional dict that is never empty
IsSome(v) == v # None

\* format_timestamp(timestamp), and the same strftime in wikidata_utils.py:
\* the instant t rendered as '%Y-%m-%d %H:%M:%S UTC'
format_timestamp(timestamp) == [utc |-> timestamp]

\* datetime.now().strftime(...): the wall clock at the time of the run
current_time == [clock |-> "now"]

(***************************************************************************)
(* The texts, files and pages of the modelled world.                       *)
(***************************************************************************)
\* "File:X.jpg" and "File:Y.jpg": file titles as Commons lists them
FileX == <<"F", "i", "l", "e", ":", "X", ".", "j", "p", "g">>
FileY == <<"F", "i", "l", "e", ":", "Y", ".", "j", "p", "g">>

\* P18 values: "X.jpg", "Y.jpg"
ImageX == <<"X", ".", "j", "p", "g">>
ImageY == <<"Y", ".", "j", "p", "g">>

\* wikitexts: "no image", "[[File:X.jpg]]", "[[File:Y.jpg]]", ""
TextNoImage == <<"n", "o", " ", "i", "m", "a", "g", "e">>
TextX == <<"[", "[">> \o FileX \o <<"]", "]">>
TextY == <<"[", "[">> \o FileY \o <<"]", "]">>
TextEmpty == <<>>
PageTexts == {TextNoImage, TextX, TextY, TextEmpty}

\* all sequences over S of length at most n
SeqsUpTo(S, n) == UNION {[1..k -> S] : k \in 0..n}

\* A page history, newest first: revision i of n has id and timestamp n-i+1
\* (ids and timestamps strictly descend along the list).
Revisions(texts) ==
    [i \in 1..Len(texts) |->
        [content |-> texts[i], revid |-> Len(texts) - i + 1,
         timestamp |-> Len(texts) - i + 1]]


(***************************************************************************)
(* The revision API and the generator over it.                             *)
(*                                                                         *)
(* An api value [revisions, fail_at] is what the server holds (newest      *)
(* first) and the number of the request on which make_request raises       *)
(* WikiAPIError (0: never).                                                *)
(***************************************************************************)
\* the r-th response of a prop=revisions query: one batch, and whether the
\* response carries continue parameters (get_continue_params)
RevisionsResponse(api, r) ==
    LET n    == Len(api.revisions)
        from == (r - 1) * BatchSize + 1
        to   == IF r * BatchSize < n THEN r * BatchSize ELSE n
    IN  [continue |-> r * BatchSize < n, revisions |-> SubSeq(api.revisions, from, to)]

\* WikiAPIClient.make_request raising WikiAPIError on the r-th request
RequestFails(api, r) == api.fail_at = r

\* the generator before its first next()
GeneratorStart == [continue |-> TRUE, failed |-> FALSE, pending |-> <<>>, requests |-> 0]

\* get_page_revisions_wikitext_descending: one next() on the generator g.
\* Yields the next revision with a non-empty id, timestamp and content, or ends
\* (yield = None): after the last response, or when a request raises.
RECURSIVE get_page_revisions_wikitext_descending(_, _)
get_page_revisions_wikitext_descending(api, g) ==
    IF g.pending # <<>>
    THEN LET rev  == Head(g.pending)
             rest == [g EXCEPT !.pending = Tail(g.pending)]
         IN  IF rev.revid # 0 /\ rev.timestamp # 0 /\ rev.content # <<>>
             THEN [gen |-> rest, yield |-> rev]
             ELSE get_page_revisions_wikitext_descending(api, rest)
    ELSE IF ~g.continue
    THEN [gen |-> g, yield |-> None]
    ELSE IF RequestFails(api, g.requests + 1)
    THEN [gen |-> [g EXCEPT !.requests = g.requests + 1, !.continue = FALSE,
                            !.failed = TRUE],
          yield |-> None]
    ELSE LET resp == RevisionsResponse(api, g.requests + 1)
         IN  get_page_revisions_wikitext_descending(api,
                [continue |-> resp.continue, failed |-> FALSE,
                 pending |-> resp.revisions, requests |-> g.requests + 1])

(***************************************************************************)
(* The wikitext introduction finder.                                       *)
(***************************************************************************)
\* the locals of find_earliest_wikitext_introduction before the loop
WikitextStart ==
    [consumed |-> <<>>, earliest_rev_id |-> None, earliest_ts |-> None,
     found_any |-> FALSE]

\* the record the finder returns
WikitextInfo(st, first_image) ==
    [first_image            |-> first_image,
     from_wikidata          |-> FALSE,
     introduced_revision_id |-> st.earliest_rev_id,
     introduced_timestamp   |-> st.earliest_ts]

\* the newest revision found to reference the file (found_any was False)
FirstMatch(st, rev) ==
    [st EXCEPT !.found_any = TRUE, !.earliest_rev_id = rev.revid,
               !.earliest_ts = rev.timestamp]

\* a finder that keeps the first match as the earliest known revision
TrackOlderStale(st, rev) == st

\* an older revision that still references the file becomes the earliest known
TrackOlder(st, rev) ==
    [st EXCEPT !.earliest_rev_id = rev.revid, !.earliest_ts = rev.timestamp]

\* first_image at the revision that ends the search
FirstImageBefore(content) == ~has_image_in_wikitext(content)

\* a finder that reports no first image when the stream ends
FirstImageAtEndFalse == FALSE

\* first_image when the stream ends while the file is still referenced
FirstImageAtEnd == TRUE

\* a finder that returns a record whether or not the file was found
AfterLoopAlways(st) == WikitextInfo(st, FirstImageAtEnd)

\* what find_earliest_wikitext_introduction returns after the loop
AfterLoop(st) == IF st.found_any THEN WikitextInfo(st, FirstImageAtEnd) ELSE None

\* a finder that takes one more revision from the generator before it
\* returns at the first older revision without the file
RECURSIVE WikitextLoopOneMore(_, _, _, _)
WikitextLoopOneMore(api, file_name, g, st) ==
    LET nx == get_page_revisions_wikitext_descending(api, g)
    IN  IF nx.yield = None
        THEN [consumed |-> st.consumed, early |-> FALSE, failed |-> nx.gen.failed,
              info |-> AfterLoop(st), requests |-> nx.gen.requests]
        ELSE LET rev == nx.yield
                 has_target_file == matches_file_in_wikitext(rev.content, file_name)
                 seen == [st EXCEPT !.consumed = Append(st.consumed, rev)]
                 more == get_page_revisions_wikitext_descending(api, nx.gen)
             IN  IF ~st.found_any
                 THEN IF has_target_file
                      THEN WikitextLoopOneMore(api, file_name, nx.gen, FirstMatch(seen, rev))
                      ELSE WikitextLoopOneMore(api, file_name, nx.gen, seen)
                 ELSE IF ~has_target_file
                      THEN [consumed |-> IF more.yield = None THEN seen.consumed
                                         ELSE Append(seen.consumed, more.yield),
                            early |-> TRUE, failed |-> FALSE,
                            info |-> WikitextInfo(st, FirstImageBefore(rev.content)),
                            requests |-> more.gen.requests]
                      ELSE WikitextLoopOneMore(api, file_name, nx.gen, TrackOlder(seen, rev))

\* The for loop of find_earliest_wikitext_introduction and what follows it.
\* The result carries, beside the returned info, what was observed of the
\* generator: the revisions consumed, the requests made, and whether the
\* stream ended because a request failed.
RECURSIVE WikitextLoop(_, _, _, _)
WikitextLoop(api, file_name, g, st) ==
    LET nx == get_page_revisions_wikitext_descending(api, g)
    IN  IF nx.yield = None
        THEN [consumed |-> st.consumed, early |-> FALSE, failed |-> nx.gen.failed,
              info |-> AfterLoop(st), requests |-> nx.gen.requests]
        ELSE LET rev == nx.yield
                 has_target_file == matches_file_in_wikitext(rev.content, file_name)
                 seen == [st EXCEPT !.consumed = Append(st.consumed, rev)]
             IN  IF ~st.found_any
                 THEN IF has_target_file
                      THEN WikitextLoop(api, file_name, nx.gen, FirstMatch(seen, rev))
                      ELSE WikitextLoop(api, file_name, nx.gen, seen)
                 ELSE IF ~has_target_file
                      THEN [consumed |-> seen.consumed, early |-> TRUE, failed |-> FALSE,
                            info |-> WikitextInfo(st, FirstImageBefore(rev.content)),
                            requests |-> nx.gen.requests]
                      ELSE WikitextLoop(api, file_name, nx.gen, TrackOlder(seen, rev))

\* find_earliest_wikitext_introduction(wiki, page_title, file_name), with the
\* page's revision API standing for (wiki, page_title)
find_earliest_wikitext_introduction(api, file_name) ==
    WikitextLoop(api, file_name, GeneratorStart, WikitextStart)


(***************************************************************************)
(* Wikidata lookups (wikidata_utils.py).                                   *)
(*                                                                         *)
(* A response is [kind |-> "error"] when make_request raises WikiAPIError, *)
(* and otherwise what the server answered.                                 *)
(***************************************************************************)
\* get_wikidata_item_for_page: resp is "error", "none" (no wikibase_item
\* page property) or "item" with the item id
get_wikidata_item_for_page(resp) ==
    IF resp.kind = "item" THEN resp.item ELSE None

\* get_current_image_for_item: resp is "error", "noclaim" (no P18 claim),
\* "novalue" (a P18 claim whose snak carries no value) or "value" with image
get_current_image_for_item(resp) ==
    IF resp.kind = "value" THEN resp.image ELSE None

\* the entry appended to image_history for revision rev
HistoryEntry(rev) ==
    [image |-> rev.image, revision_id |-> rev.revid,
     timestamp |-> format_timestamp(rev.timestamp)]

\* the single entry standing for the current value when no deeper history is
\* available
SyntheticEntry(current_image) ==
    [image |-> current_image, revision_id |-> 0, timestamp |-> current_time]

\* a comparison that takes every value for a new one
DiffersAlways(p18_value, current_p18_value) == TRUE

\* "If this is a different value than we've seen before, record it"
Differs(p18_value, current_p18_value) == p18_value # current_p18_value

\* The inner loop of get_image_history_for_item over the revisions of one
\* response.  h = [image_history, current_p18_value, raised].  A revision is
\*   "value":     a P18 claim with a value (rev.image)
\*   "novalue":   a P18 claim whose snak carries no value
\*   "noclaim":   no P18 claim
\*   "badjson":   content that json.loads rejects (JSONDecodeError: skipped)
\*   "malformed": JSON of an unexpected shape, on which .get raises
RECURSIVE HistoryBatch(_, _)
HistoryBatch(revs, h) ==
    IF revs = <<>> THEN h
    ELSE LET rev == Head(revs)
         IN  CASE rev.kind = "badjson"   -> HistoryBatch(Tail(revs), h)
               [] rev.kind = "malformed" -> [h EXCEPT !.raised = TRUE]
               [] rev.kind = "value" ->
                    IF Differs(rev.image, h.current_p18_value)
                    THEN HistoryBatch(Tail(revs),
                            [h EXCEPT !.image_history = Append(@, HistoryEntry(rev)),
                                      !.current_p18_value = rev.image])
                    ELSE HistoryBatch(Tail(revs), h)
               [] rev.kind = "novalue"   -> HistoryBatch(Tail(revs), h)
               [] rev.kind = "noclaim" ->
                    IF h.current_p18_value # None
                    THEN h
                    ELSE HistoryBatch(Tail(revs), h)

\* The pagination loop of get_image_history_for_item from request r on, and
\* the code after it.  Returns [raised, value]: raised when an exception other
\* than WikiAPIError leaves the function.
RECURSIVE HistoryPages(_, _, _, _)
HistoryPages(api, current_image, r, h) ==
    IF RequestFails(api, r)
    THEN [raised |-> FALSE, value |-> <<SyntheticEntry(current_image)>>]
    ELSE LET resp == RevisionsResponse(api, r)
             h2   == HistoryBatch(resp.revisions, h)
         IN  IF h2.raised
             THEN [raised |-> TRUE, value |-> None]
             ELSE IF resp.continue
             THEN HistoryPages(api, current_image, r + 1, h2)
             ELSE IF h2.image_history = <<>> /\ Truthy(current_image)
             THEN [raised |-> FALSE, value |-> <<SyntheticEntry(current_image)>>]
             ELSE [raised |-> FALSE, value |-> h2.image_history]

\* get_image_history_for_item(item_id): current_resp answers the function's own
\* wbgetclaims request, api is the item's revision API
get_image_history_for_item(current_resp, api) ==
    LET current_image == get_current_image_for_item(current_resp)
    IN  IF ~Truthy(current_image)
        THEN [raised |-> FALSE, value |-> <<>>]
        ELSE HistoryPages(api, current_image, 1,
                [current_p18_value |-> None, image_history |-> <<>>, raised |-> FALSE])

\* An item history, newest first, from what each revision holds
ItemRevisions(holds) ==
    [i \in 1..Len(holds) |->
        [image |-> Get(holds[i], "image", None), kind |-> holds[i].kind,
         revid |-> Len(holds) - i + 1, timestamp |-> Len(holds) - i + 1]]

\* previous images that count the current image in
PreviousImagesWithCurrent(image_history) ==
    [i \in 1..Len(image_history) |-> image_history[i].image]

\* previous_images of find_wikidata_introduction
PreviousImages(image_history) ==
    IF Len(image_history) > 1
    THEN [i \in 1..(Len(image_history) - 1) |-> image_history[i + 1].image]
    ELSE <<>>

\* a first_p18 that is off by one
FirstP18Strict(image_history) == Len(image_history) < 1

\* first_p18 of find_wikidata_introduction
FirstP18(image_history) == Len(image_history) <= 1

\* a record for a matched item that is not marked as coming from Wikidata
WikidataInfoUnmarked(wikidata_item, image_history) ==
    [first_image            |-> TRUE,
     first_p18              |-> TRUE,
     from_wikidata          |-> FALSE,
     introduced_revision_id |-> 0,
     introduced_timestamp   |-> current_time,
     previous_p18_images    |-> <<>>,
     timestamp_is_formatted |-> TRUE,
     wikidata_item          |-> wikidata_item]

\* the record find_wikidata_introduction returns for a matched item
WikidataInfo(wikidata_item, image_history) ==
    LET previous_images == PreviousImages(image_history)
    IN  [first_image            |-> Len(previous_images) = 0,
         first_p18              |-> FirstP18(image_history),
         from_wikidata          |-> TRUE,
         introduced_revision_id |->
            IF image_history # <<>> THEN Get(image_history[1], "revision_id", 0) ELSE 0,
         introduced_timestamp   |->
            IF image_history # <<>> THEN image_history[1].timestamp
            ELSE [text |-> "Unknown"],
         previous_p18_images    |-> previous_images,
         timestamp_is_formatted |-> TRUE,
         wikidata_item          |-> wikidata_item]


(***************************************************************************)
(* Wikis, pages and the statistics.                                        *)
(***************************************************************************)
\* wiki domains, as their dot-separated labels
WikiEn == <<"en", "wikipedia", "org">>
WikiDe == <<"de", "wikipedia", "org">>
WikiFr == <<"fr", "wikipedia", "org">>
WikiSpecies == <<"species", "wikimedia", "org">>
AllWikis == {WikiEn, WikiDe, WikiFr, WikiSpecies}
AllFiles == {FileX, FileY}
AllTitles == {"P1"}

\* wiki.endswith('.wikipedia.org')
IsWikipedia(wiki) ==
    Len(wiki) >= 3 /\ SubSeq(wiki, Len(wiki) - 1, Len(wiki)) = <<"wikipedia", "org">>

\* get_language_code(wiki_domain)
get_language_code(wiki_domain) ==
    IF ~IsWikipedia(wiki_domain) THEN "unknown" ELSE wiki_domain[1]

AllLangs == {get_language_code(w) : w \in AllWikis}

\* a counter that steps by two
IncTwice(d, k) == [d EXCEPT ![k] = @ + 2]

\* defaultdict(int)[k] += 1
Inc(d, k) == [d EXCEPT ![k] = @ + 1]

\* StatisticsTracker.__init__ (a defaultdict is a function that is 0, or the
\* empty set, where nothing was stored; usage_by_wiki keeps its insertion
\* order, which sorted() reads).  Fields are listed alphabetically.
initialize_statistics ==
    [files_used_on_wikipedias |-> 0,
     first_image_by_file      |-> [f \in AllFiles |-> 0],
     first_image_by_lang      |-> [l \in AllLangs |-> 0],
     first_image_by_wiki      |-> [w \in AllWikis |-> 0],
     first_p18_count          |-> 0,
     replaced_p18_count       |-> 0,
     total_usages_by_file     |-> [f \in AllFiles |-> 0],
     total_usages_by_lang     |-> [l \in AllLangs |-> 0],
     total_usages_by_wiki     |-> [w \in AllWikis |-> 0],
     usage_by_wiki            |-> <<>>,
     wiki_pages_seen          |-> [w \in AllWikis |-> {}],
     wikidata_sourced_by_wiki |-> [w \in AllWikis |-> 0],
     wikidata_sourced_count   |-> 0]

\* StatisticsTracker.update_file_usage(file_title, wiki, lang_code,
\* is_first_image, from_wikidata, is_first_p18)
update_file_usage(st, file_title, wiki, lang_code, is_first_image, from_wikidata, is_first_p18) ==
    LET totals ==
            [st EXCEPT !.total_usages_by_file = Inc(@, file_title),
                       !.total_usages_by_wiki = Inc(@, wiki),
                       !.total_usages_by_lang = Inc(@, lang_code)]
        firsts ==
            IF is_first_image
            THEN [totals EXCEPT !.first_image_by_file = Inc(@, file_title),
                                !.first_image_by_wiki = Inc(@, wiki),
                                !.first_image_by_lang = Inc(@, lang_code)]
            ELSE totals
    IN  IF from_wikidata
        THEN IF is_first_p18
             THEN [firsts EXCEPT !.wikidata_sourced_count = @ + 1,
                                 !.wikidata_sourced_by_wiki = Inc(@, wiki),
                                 !.first_p18_count = @ + 1]
             ELSE [firsts EXCEPT !.wikidata_sourced_count = @ + 1,
                                 !.wikidata_sourced_by_wiki = Inc(@, wiki),
                                 !.replaced_p18_count = @ + 1]
        ELSE firsts

\* a tracker on which a usage that is not a first image resets the file's
\* first-image counter
UpdateResetting(info, st, file_title, wiki, lang_code) ==
    IF info.first_image
    THEN [st EXCEPT !.total_usages_by_file = Inc(@, file_title),
                    !.first_image_by_file = Inc(@, file_title)]
    ELSE [st EXCEPT !.total_usages_by_file = Inc(@, file_title),
                    !.first_image_by_file[file_title] = 0]

\* update_statistics(info, stats, file_title, wiki, lang_code)
update_statistics(info, st, file_title, wiki, lang_code) ==
    LET totals ==
            [st EXCEPT !.total_usages_by_file = Inc(@, file_title),
                       !.total_usages_by_wiki = Inc(@, wiki),
                       !.total_usages_by_lang = Inc(@, lang_code)]
        firsts ==
            IF info.first_image
            THEN [totals EXCEPT !.first_image_by_file = Inc(@, file_title),
                                !.first_image_by_wiki = Inc(@, wiki),
                                !.first_image_by_lang = Inc(@, lang_code)]
            ELSE totals
    IN  IF Get(info, "from_wikidata", FALSE)
        THEN IF Get(info, "first_p18", FALSE)
             THEN [firsts EXCEPT !.wikidata_sourced_count = @ + 1,
                                 !.wikidata_sourced_by_wiki = Inc(@, wiki),
                                 !.first_p18_count = @ + 1]
             ELSE [firsts EXCEPT !.wikidata_sourced_count = @ + 1,
                                 !.wikidata_sourced_by_wiki = Inc(@, wiki),
                                 !.replaced_p18_count = @ + 1]
        ELSE firsts

\* a result entry that never says it came from Wikidata
CreateEntryUnmarked(info, file_title, wiki, lang_code, page_title) ==
    [file                   |-> file_title,
     first_image            |-> info.first_image,
     first_p18              |-> Get(info, "first_p18", None),
     from_wikidata          |-> FALSE,
     introduced_revision_id |-> info.introduced_revision_id,
     introduced_timestamp   |-> info.introduced_timestamp,
     language               |-> lang_code,
     page                   |-> page_title,
     previous_p18_images    |-> Get(info, "previous_p18_images", <<>>),
     wiki                   |-> wiki,
     wikidata_item          |-> Get(info, "wikidata_item", None)]

\* create_result_entry(info, file_title, wiki, lang_code, page_title)
create_result_entry(info, file_title, wiki, lang_code, page_title) ==
    [file                   |-> file_title,
     first_image            |-> info.first_image,
     first_p18              |-> Get(info, "first_p18", None),
     from_wikidata          |-> Get(info, "from_wikidata", FALSE),
     introduced_revision_id |-> info.introduced_revision_id,
     introduced_timestamp   |->
        IF Get(info, "timestamp_is_formatted", FALSE)
        THEN info.introduced_timestamp
        ELSE format_timestamp(info.introduced_timestamp),
     language               |-> lang_code,
     page                   |-> page_title,
     previous_p18_images    |-> Get(info, "previous_p18_images", <<>>),
     wiki                   |-> wiki,
     wikidata_item          |-> Get(info, "wikidata_item", None)]

(***************************************************************************)
(* Category enumeration (get_commons_category_files).                      *)
(*                                                                         *)
(* A world is the category graph Commons holds: the member titles and the  *)
(* subcategories each category lists, in listing order, and the request,   *)
(* if any, on which make_request raises WikiAPIError: the fail_at-th       *)
(* request made for category fail_cat.                                     *)
(***************************************************************************)
\* "File:Z.jpg", a file no usage is modelled for, and a member title that is
\* no file
FileZ == <<"F", "i", "l", "e", ":", "Z", ".", "j", "p", "g">>
GalleryPage == <<"G", "a", "l", "l", "e", "r", "y">>

\* the categories; the run is started on RootCategory
RootCategory == "Root"
Categories == {"Root", "A", "B", "C"}

\* the r-th response of a list=categorymembers query over list
MembersResponse(list, r) ==
    LET n    == Len(list)
        from == (r - 1) * BatchSize + 1
        to   == IF r * BatchSize < n THEN r * BatchSize ELSE n
    IN  [continue |-> r * BatchSize < n, titles |-> SubSeq(list, from, to)]

\* One "while True" listing loop of get_category_files_recursive from its r-th
\* request on, k requests having been made for the category before the loop:
\* the titles the responses carried, up to a request that raises.
RECURSIVE ListMembers(_, _, _, _, _)
ListMembers(world, cat_name, list, r, k) ==
    IF world.fail_cat = cat_name /\ world.fail_at = k + r
    THEN [failed |-> TRUE, requests |-> r, titles |-> <<>>]
    ELSE LET resp == MembersResponse(list, r)
         IN  IF resp.continue
             THEN LET rest == ListMembers(world, cat_name, list, r + 1, k)
                  IN  [failed |-> rest.failed, requests |-> rest.requests,
                       titles |-> resp.titles \o rest.titles]
             ELSE [failed |-> FALSE, requests |-> r, titles |-> resp.titles]

\* all_files and processed_categories before the first call, with a log of
\* the categories fetched and whether a request failed
EnumerationStart ==
    [all_files |-> <<>>, failed |-> FALSE, fetched |-> <<>>,
     processed_categories |-> {}]

\* a guard that skips a category only for its depth
SkipBeyondDepth(depth, cat_name, current_depth, processed_categories) ==
    current_depth > depth

\* the guard of get_category_files_recursive: the category is skipped
SkipCategory(depth, cat_name, current_depth, processed_categories) ==
    current_depth > depth \/ cat_name \in processed_categories

\* get_category_files_recursive(cat_name, current_depth), and the loop over
\* the subcategories that calls it.  A WikiAPIError is caught in the call in
\* which it was raised: that call ends, its caller goes on.
RECURSIVE get_category_files_recursive(_, _, _, _, _)
RECURSIVE VisitSubcategories(_, _, _, _, _)
get_category_files_recursive(world, depth, cat_name, current_depth, acc) ==
    IF SkipCategory(depth, cat_name, current_depth, acc.processed_categories)
    THEN acc
    ELSE LET files   == ListMembers(world, cat_name, world.members[cat_name], 1, 0)
             listed  == [acc EXCEPT
                            !.all_files = @ \o files.titles,
                            !.failed = @ \/ files.failed,
                            !.fetched = Append(@, [cat |-> cat_name, depth |-> current_depth]),
                            !.processed_categories = @ \cup {cat_name}]
         IN  IF files.failed \/ ~(current_depth < depth)
             THEN listed
             ELSE LET subs == ListMembers(world, cat_name, world.subcats[cat_name], 1,
                                          files.requests)
                  IN  IF subs.failed
                      THEN [listed EXCEPT !.failed = TRUE]
                      ELSE VisitSubcategories(world, depth, subs.titles,
                                              current_depth + 1, listed)

VisitSubcategories(world, depth, subcategories, current_depth, acc) ==
    IF subcategories = <<>> THEN acc
    ELSE VisitSubcategories(world, depth, Tail(subcategories), current_depth,
            get_category_files_recursive(world, depth, Head(subcategories),
                                         current_depth, acc))

\* a deduplication that keeps every title starting with "File:"
KeepEveryFile(all_files, seen) == SelectSeq(all_files, LAMBDA f : StartsWith(f, FilePrefix))

\* "Remove duplicates while preserving order": the titles of all_files that
\* start with "File:" and were not seen before
RECURSIVE UniqueFiles(_, _)
UniqueFiles(all_files, seen) ==
    IF all_files = <<>> THEN <<>>
    ELSE LET file == Head(all_files)
         IN  IF file \notin seen /\ StartsWith(file, FilePrefix)
             THEN <<file>> \o UniqueFiles(Tail(all_files), seen \cup {file})
             ELSE UniqueFiles(Tail(all_files), seen)

\* get_commons_category_files(category_name, depth) in the given world: the
\* list returned, with what was observed of the enumeration
get_commons_category_files(world, category_name, depth) ==
    LET acc == get_category_files_recursive(world, depth, category_name, 0, EnumerationStart)
    IN  [failed |-> acc.failed, fetched |-> acc.fetched,
         result |-> UniqueFiles(acc.all_files, {})]

(***************************************************************************)
(* Global usage of a file.                                                 *)
(***************************************************************************)
\* the wikis of a usage list, in order of first occurrence
RECURSIVE WikisInOrder(_, _)
WikisInOrder(usage, seen) ==
    IF usage = <<>> THEN <<>>
    ELSE IF Head(usage).wiki \in seen
         THEN WikisInOrder(Tail(usage), seen)
         ELSE <<Head(usage).wiki>> \o WikisInOrder(Tail(usage), seen \cup {Head(usage).wiki})

\* get_global_usage_of_file(filename): resp is [error, usage], usage the
\* globalusage entries of all result pages in order.  Returns the dict as a
\* sequence of [wiki, pages] in insertion order, pages a set; a failed request
\* gives the empty dict.
get_global_usage_of_file(resp) ==
    IF resp.error THEN <<>>
    ELSE LET kept  == SelectSeq(resp.usage, LAMBDA u : IsWikipedia(u.wiki))
             wikis == WikisInOrder(kept, {})
         IN  [i \in 1..Len(wikis) |->
                [pages |-> {kept[j].title : j \in {k \in 1..Len(kept) : kept[k].wiki = wikis[i]}},
                 wiki  |-> wikis[i]]]


(***************************************************************************)
(* process_files: usage counts per wiki and the --limit-wikis filter.      *)
(***************************************************************************)
\* stats.usage_by_wiki[wiki] += n, on the dict kept as [wiki, count] entries
\* in insertion order
AddUsage(usage_by_wiki, wiki, n) ==
    IF \E i \in 1..Len(usage_by_wiki) : usage_by_wiki[i].wiki = wiki
    THEN [i \in 1..Len(usage_by_wiki) |->
            IF usage_by_wiki[i].wiki = wiki
            THEN [usage_by_wiki[i] EXCEPT !.count = @ + n]
            ELSE usage_by_wiki[i]]
    ELSE Append(usage_by_wiki, [count |-> n, wiki |-> wiki])

\* for wiki, pages in wiki_pages.items(): stats.usage_by_wiki[wiki] += len(pages)
RECURSIVE CountUsages(_, _)
CountUsages(usage_by_wiki, wiki_pages) ==
    IF wiki_pages = <<>> THEN usage_by_wiki
    ELSE CountUsages(
            AddUsage(usage_by_wiki, Head(wiki_pages).wiki, Cardinality(Head(wiki_pages).pages)),
            Tail(wiki_pages))

\* sorted(items, key=lambda x: x[1], reverse=True): stable, largest count first
RECURSIVE SortedByCount(_)
SortedByCount(items) ==
    IF items = <<>> THEN <<>>
    ELSE LET rest == SortedByCount(SubSeq(items, 1, Len(items) - 1))
             x    == items[Len(items)]
             k    == Cardinality({i \in 1..Len(rest) : rest[i].count >= x.count})
         IN  SubSeq(rest, 1, k) \o <<x>> \o SubSeq(rest, k + 1, Len(rest))

\* the wiki_pages process_files goes on with, after the --limit-wikis filter
LimitWikis(wiki_pages, usage_by_wiki, limit_wikis) ==
    IF limit_wikis # 0 /\ Len(wiki_pages) > limit_wikis
    THEN LET sorted    == SortedByCount(usage_by_wiki)
             top_wikis == SubSeq(sorted, 1,
                                 IF limit_wikis < Len(sorted) THEN limit_wikis ELSE Len(sorted))
             top_wiki_domains == {top_wikis[i].wiki : i \in 1..Len(top_wikis)}
         IN  SelectSeq(wiki_pages, LAMBDA wp : wp.wiki \in top_wiki_domains)
    ELSE wiki_pages

\* every order in which a set can be iterated
Orderings(S) ==
    {q \in [1..Cardinality(S) -> S] : \A i, j \in 1..Cardinality(S) : q[i] = q[j] => i = j}

\* The (wiki, page) usages of one file in the order the two nested loops visit
\* them: wikis in dict order, the pages of a wiki in the order list(set) gave.
RECURSIVE Worklists(_)
Worklists(wiki_pages) ==
    IF wiki_pages = <<>> THEN {<<>>}
    ELSE {[i \in 1..Len(q) |-> [page |-> q[i], wiki |-> Head(wiki_pages).wiki]] \o rest :
            q \in Orderings(Head(wiki_pages).pages), rest \in Worklists(Tail(wiki_pages))}

(***************************************************************************)
(* The run: main(), process_files, process_wiki_pages and the resolver.    *)
(***************************************************************************)
VARIABLES
    pc,          \* where main() is: "start", "files" (process_files, between
                 \* files), "page" (process_wiki_pages, before a page), "item",
                 \* "current", "history" (inside find_wikidata_introduction),
                 \* "done" (main returned), "exit" (sys.exit); "text" and
                 \* "returned" around a text matcher called on its own
    args,        \* the parsed command line: [skip_wikidata, limit_wikis]
    all_files,   \* the files get_commons_category_files returned
    file_idx,    \* the index in all_files of the file being processed
    worklist,    \* the (wiki, page) usages of that file still to analyse
    stats,       \* the StatisticsTracker
    results,     \* the result entries
    cur,         \* the usage being analysed and what was looked up for it,
                 \* with the globalusage entries reported for its file
    info,        \* what the resolver returned for the last analysed usage
    lookups,     \* the lookups made for the usage being analysed, in order
    exit_status, \* the status sys.exit was called with, and why
    call         \* a function called with inputs of its own, a text matcher
                 \* or get_commons_category_files: its inputs and result; for
                 \* a tracker on its own, the bag of events recorded so far

vars == <<pc, args, all_files, file_idx, worklist, stats, results, cur, info,
          lookups, exit_status, call>>

NoUsage ==
    [api |-> None, file |-> None, history |-> None, item_api |-> None, page |-> None,
     usage |-> <<>>, wiki |-> None, wikidata_image |-> None, wikidata_item |-> None,
     wikitext |-> None]

NoCall == [fn |-> "none"]

InitRun(Args) ==
    /\ pc = "start"
    /\ args \in Args
    /\ all_files = <<>>
    /\ file_idx = 0
    /\ worklist = <<>>
    /\ stats = initialize_statistics
    /\ results = <<>>
    /\ cur = NoUsage
    /\ info = None
    /\ lookups = <<>>
    /\ exit_status = None
    /\ call = NoCall

\* sys.exit(1) from main(), for the given reason
Exit(reason) ==
    /\ pc' = "exit"
    /\ exit_status' = [reason |-> reason, status |-> 1]

\* main() up to process_files: the category's files are listed; no file ends
\* the run with status 1.
EnumerateCategory(FileLists) ==
    /\ pc = "start"
    /\ \E files \in FileLists :
        /\ all_files' = files
        /\ IF files = <<>>
           THEN Exit("no files") /\ UNCHANGED file_idx
           ELSE pc' = "files" /\ file_idx' = 1 /\ UNCHANGED exit_status
    /\ UNCHANGED <<args, worklist, stats, results, cur, info, lookups, call>>

\* main() up to process_files over a category graph of Commons: the files of
\* RootCategory are enumerated to the given depth; no file ends the run with
\* status 1.  An error caught during the enumeration does not reach main().
EnumerateCommons(Worlds, Depths) ==
    /\ pc = "start"
    /\ \E world \in Worlds, depth \in Depths :
        LET listed == get_commons_category_files(world, RootCategory, depth)
        IN  /\ call' = [depth |-> depth, failed |-> listed.failed,
                        fetched |-> listed.fetched, fn |-> "get_commons_category_files",
                        result |-> listed.result, world |-> world]
            /\ all_files' = listed.result
            /\ IF listed.result = <<>>
               THEN Exit("no files") /\ UNCHANGED file_idx
               ELSE pc' = "files" /\ file_idx' = 1 /\ UNCHANGED exit_status
    /\ UNCHANGED <<args, worklist, stats, results, cur, info, lookups>>

\* process_files, one iteration of "for file_title in all_files" up to the
\* calls of process_wiki_pages
StartFile(UsageResponses) ==
    /\ pc = "files"
    /\ file_idx <= Len(all_files)
    /\ \E resp \in UsageResponses :
        LET wiki_pages == get_global_usage_of_file(resp)
            counted    == [stats EXCEPT !.files_used_on_wikipedias = @ + 1,
                                        !.usage_by_wiki = CountUsages(@, wiki_pages)]
            limited    == LimitWikis(wiki_pages, counted.usage_by_wiki, args.limit_wikis)
        IN  IF wiki_pages = <<>>
            THEN /\ file_idx' = file_idx + 1
                 /\ UNCHANGED <<pc, worklist, stats, cur>>
            ELSE /\ stats' = counted
                 /\ cur' = [NoUsage EXCEPT !.usage = resp.usage]
                 /\ \E w \in Worklists(limited) :
                      /\ worklist' = w
                      /\ IF w = <<>>
                         THEN pc' = "files" /\ file_idx' = file_idx + 1
                         ELSE pc' = "page" /\ UNCHANGED file_idx
    /\ UNCHANGED <<args, all_files, results, info, lookups, exit_status, call>>

\* a process_wiki_pages that counts a usage of the file even when the
\* resolver returned no introduction
ConcludeCounting(new_info, st) ==
    LET u         == Head(worklist)
        file      == all_files[file_idx]
        lang_code == get_language_code(u.wiki)
    IN  /\ info' = new_info
        /\ IF IsSome(new_info)
           THEN /\ stats' = update_statistics(new_info, st, file, u.wiki, lang_code)
                /\ results' = Append(results,
                                create_result_entry(new_info, file, u.wiki, lang_code, u.page))
           ELSE /\ stats' = [st EXCEPT !.total_usages_by_file = Inc(@, file)]
                /\ UNCHANGED results
        /\ worklist' = Tail(worklist)
        /\ IF Tail(worklist) = <<>>
           THEN pc' = "files" /\ file_idx' = file_idx + 1
           ELSE pc' = "page" /\ UNCHANGED file_idx

\* process_wiki_pages, after the resolver returned new_info for the usage at
\* the head of the worklist: the statistics and the result entry, then on to
\* the next page, wiki or file.
Conclude(new_info, st) ==
    LET u         == Head(worklist)
        file      == all_files[file_idx]
        lang_code == get_language_code(u.wiki)
    IN  /\ info' = new_info
        /\ IF IsSome(new_info)
           THEN /\ stats' = update_statistics(new_info, st, file, u.wiki, lang_code)
                /\ results' = Append(results,
                                create_result_entry(new_info, file, u.wiki, lang_code, u.page))
           ELSE /\ stats' = st
                /\ UNCHANGED results
        /\ worklist' = Tail(worklist)
        /\ IF Tail(worklist) = <<>>
           THEN pc' = "files" /\ file_idx' = file_idx + 1
           ELSE pc' = "page" /\ UNCHANGED file_idx

\* a resolver that consults Wikidata even when the wikitext finder found the file
FallsBackWheneverAllowed(skip_wikidata, wikitext_info) == ~skip_wikidata

\* Whether the resolver goes on to find_wikidata_introduction after the
\* wikitext finder returned wikitext_info: find_earliest_introduction returns
\* a record it got at once, and with --skip-wikidata process_wiki_pages calls
\* the wikitext finder alone.
FallsBackToWikidata(skip_wikidata, wikitext_info) ==
    ~skip_wikidata /\ ~IsSome(wikitext_info)

\* process_wiki_pages, one iteration of "for page_title in pages": the page is
\* noted as seen and the wikitext finder runs.  With --skip-wikidata, or when
\* find_earliest_introduction got a record from it, the usage is concluded;
\* otherwise find_earliest_introduction goes on to find_wikidata_introduction.
AnalyzePage(PageApis) ==
    /\ pc = "page"
    /\ \E api \in PageApis :
        LET u        == Head(worklist)
            file     == all_files[file_idx]
            seen     == [stats EXCEPT !.wiki_pages_seen[u.wiki] = @ \cup {u.page}]
            wikitext == find_earliest_wikitext_introduction(api, file)
        IN  /\ cur' = [NoUsage EXCEPT !.file = file, !.wiki = u.wiki, !.page = u.page,
                                      !.api = api, !.wikitext = wikitext,
                                      !.usage = cur.usage]
            /\ lookups' = <<"find_earliest_wikitext_introduction">>
            /\ IF FallsBackToWikidata(args.skip_wikidata, wikitext.info)
               THEN /\ pc' = "item"
                    /\ stats' = seen
                    /\ UNCHANGED <<info, results, worklist, file_idx>>
               ELSE Conclude(wikitext.info, seen)
    /\ UNCHANGED <<args, all_files, exit_status, call>>

\* a finder that takes every answer for an item
ItemResolvedAlways(wikidata_item) == TRUE

\* "if not wikidata_item: return None", negated
ItemResolved(wikidata_item) == Truthy(wikidata_item)

\* find_wikidata_introduction: the item of the page
LookupItem(ItemResponses) ==
    /\ pc = "item"
    /\ \E resp \in ItemResponses :
        LET wikidata_item == get_wikidata_item_for_page(resp)
        IN  /\ cur' = [cur EXCEPT !.wikidata_item = wikidata_item]
            /\ lookups' = Append(lookups, "get_wikidata_item_for_page")
            /\ IF ~ItemResolved(wikidata_item)
               THEN Conclude(None, stats)
               ELSE pc' = "current" /\ UNCHANGED <<info, stats, results, worklist, file_idx>>
    /\ UNCHANGED <<args, all_files, exit_status, call>>

\* find_wikidata_introduction: the item's current image, and its comparison
\* with the file
LookupCurrentImage(ImageResponses) ==
    /\ pc = "current"
    /\ \E resp \in ImageResponses :
        LET wikidata_image == get_current_image_for_item(resp)
        IN  /\ cur' = [cur EXCEPT !.wikidata_image = wikidata_image]
            /\ lookups' = Append(lookups, "get_current_image_for_item")
            /\ IF ~Truthy(wikidata_image)
               THEN Conclude(None, stats)
               ELSE IF check_if_file_matches_wikidata_image(cur.file, wikidata_image)
               THEN pc' = "history" /\ UNCHANGED <<info, stats, results, worklist, file_idx>>
               ELSE Conclude(None, stats)
    /\ UNCHANGED <<args, all_files, exit_status, call>>

\* find_wikidata_introduction: the image history and the record built from it.
\* An exception out of get_image_history_for_item is re-raised by
\* find_wikidata_introduction and by process_wiki_pages, and main() exits.
LookupHistory(ImageResponses, ItemApis) ==
    /\ pc = "history"
    /\ \E resp \in ImageResponses, api \in ItemApis :
        LET image_history == get_image_history_for_item(resp, api)
        IN  /\ cur' = [cur EXCEPT !.item_api = [api |-> api, current |-> resp],
                                  !.history = image_history]
            /\ lookups' = Append(lookups, "get_image_history_for_item")
            /\ IF image_history.raised
               THEN /\ Exit("usage failed")
                    /\ UNCHANGED <<info, stats, results, worklist, file_idx>>
               ELSE /\ Conclude(WikidataInfo(cur.wikidata_item, image_history.value), stats)
                    /\ UNCHANGED exit_status
    /\ UNCHANGED <<args, all_files, call>>

\* process_files returned: main() prints the report and returns the results
Finish ==
    /\ pc = "files"
    /\ file_idx > Len(all_files)
    /\ pc' = "done"
    /\ UNCHANGED <<args, all_files, file_idx, worklist, stats, results, cur, info,
                   lookups, exit_status, call>>


\* a text matcher called on its own
CallMatchesFile(Texts, FileNames) ==
    /\ pc = "text"
    /\ \E content \in Texts, file_name \in FileNames :
        call' = [content |-> content, file_name |-> file_name,
                 fn |-> "matches_file_in_wikitext",
                 result |-> matches_file_in_wikitext(content, file_name)]
    /\ pc' = "returned"
    /\ UNCHANGED <<args, all_files, file_idx, worklist, stats, results, cur, info,
                   lookups, exit_status>>

CallHasImage(Texts) ==
    /\ pc = "text"
    /\ \E content \in Texts :
        call' = [content |-> content, fn |-> "has_image_in_wikitext",
                 result |-> has_image_in_wikitext(content)]
    /\ pc' = "returned"
    /\ UNCHANGED <<args, all_files, file_idx, worklist, stats, results, cur, info,
                   lookups, exit_status>>

\* one usage event recorded by whichever of the two methods e.fn names
Record(e, st) ==
    IF e.fn = "update_statistics"
    THEN update_statistics(e.info, st, e.file, e.wiki, get_language_code(e.wiki))
    ELSE update_file_usage(st, e.file, e.wiki, get_language_code(e.wiki),
                           e.info.first_image, Get(e.info, "from_wikidata", FALSE),
                           Get(e.info, "first_p18", FALSE))

\* a statistics tracker on its own records one more usage event
RecordUsage(Events) ==
    /\ pc = "stats"
    /\ BagCardinality(call.events) < MaxEvents
    /\ \E e \in Events :
        /\ stats' = Record(e, stats)
        /\ call' = [call EXCEPT !.events = @ (+) SetToBag({e})]
    /\ UNCHANGED <<pc, args, all_files, file_idx, worklist, results, cur, info,
                   lookups, exit_status>>

CallCheckWikidataImage(Prefixes, Names) ==
    /\ pc = "text"
    /\ \E prefix \in Prefixes, name \in Names, wikidata_image \in Names :
        call' = [file_name |-> prefix \o name,
                 fn |-> "check_if_file_matches_wikidata_image", name |-> name,
                 prefix |-> prefix,
                 result |-> check_if_file_matches_wikidata_image(prefix \o name,
                                                                 wikidata_image),
                 wikidata_image |-> wikidata_image]
    /\ pc' = "returned"
    /\ UNCHANGED <<args, all_files, file_idx, worklist, stats, results, cur, info,
                   lookups, exit_status>>

(***************************************************************************)
(* The inputs the environment draws from.                                  *)
(***************************************************************************)
\* requests a client needs to read n revisions to the end
RequestsFor(n) == IF n = 0 THEN 1 ELSE (n + BatchSize - 1) \div BatchSize

\* page revision APIs with histories of at most n revisions over the texts
PageApis(texts, n) ==
    {[fail_at |-> f, revisions |-> Revisions(t)] :
        <<t, f>> \in {<<t, f>> \in SeqsUpTo(texts, n) \X (0..RequestsFor(n)) :
                        f <= RequestsFor(Len(t))}}

\* what a revision of an item can hold
ItemHolds ==
    {[image |-> ImageX, kind |-> "value"], [image |-> ImageY, kind |-> "value"],
     [kind |-> "novalue"], [kind |-> "noclaim"], [kind |-> "badjson"],
     [kind |-> "malformed"]}

\* item revision APIs with histories of at most n revisions, each holding
\* one of holds
ItemApis(holds, n) ==
    {[fail_at |-> f, revisions |-> ItemRevisions(t)] :
        <<t, f>> \in {<<t, f>> \in SeqsUpTo(holds, n) \X (0..RequestsFor(n)) :
                        f <= RequestsFor(Len(t))}}

ItemResponses == {[kind |-> "error"], [kind |-> "none"], [item |-> <<"Q", "1">>, kind |-> "item"]}

ImageResponses ==
    {[kind |-> "error"], [kind |-> "noclaim"], [kind |-> "novalue"],
     [image |-> ImageX, kind |-> "value"], [image |-> ImageY, kind |-> "value"]}

\* global usage responses with at most n entries over the given wikis and titles
UsageResponses(wikis, titles, n) ==
    {[error |-> TRUE, usage |-> <<>>]} \cup
    {[error |-> FALSE, usage |-> u] :
        u \in SeqsUpTo({[title |-> t, wiki |-> w] : w \in wikis, t \in titles}, n)}

\* lists of distinct files among the given ones, at most n long
FileLists(files, n) ==
    {q \in SeqsUpTo(files, n) : \A i, j \in 1..Len(q) : q[i] = q[j] => i = j}

\* the member titles the categories list, two pages of them for A: a file
\* of the root again, a page that is no file, and files of their own
CategoryMembers ==
    [c \in Categories |->
        CASE c = "Root" -> <<FileX>>
          [] c = "A"    -> <<FileX, GalleryPage, FileY>>
          [] c = "B"    -> <<FileY>>
          [] OTHER      -> <<FileZ>>]

\* the subcategory lists of category c: at most n distinct categories, none
\* of them the root or c itself
SubcatLists(c, n) ==
    {q \in SeqsUpTo(Categories \ {RootCategory, c}, n) :
        \A i, j \in 1..Len(q) : q[i] = q[j] => i = j}

\* category graphs with at most n subcategories per category and at most
\* links links in all; categories can list each other
CategoryGraphs(n, links) ==
    LET lists == {t \in SubcatLists("Root", n) \X SubcatLists("A", n) \X
                        SubcatLists("B", n) \X SubcatLists("C", n) :
                    Len(t[1]) + Len(t[2]) + Len(t[3]) + Len(t[4]) <= links}
    IN  {[c \in Categories |->
            CASE c = "Root" -> t[1]
              [] c = "A"    -> t[2]
              [] c = "B"    -> t[3]
              [] OTHER      -> t[4]] : t \in lists}

\* category graphs with at most n subcategories per category and at most
\* links links in all, in which a category can also list itself or the root
AnyGraphs(n, links) ==
    LET any   == {q \in SeqsUpTo(Categories, n) :
                    \A i, j \in 1..Len(q) : q[i] = q[j] => i = j}
        lists == {t \in any \X any \X any \X any :
                    Len(t[1]) + Len(t[2]) + Len(t[3]) + Len(t[4]) <= links}
    IN  {[c \in Categories |->
            CASE c = "Root" -> t[1]
              [] c = "A"    -> t[2]
              [] c = "B"    -> t[3]
              [] OTHER      -> t[4]] : t \in lists}

\* the most requests one category is listed with
RequestsPerCategory(n) ==
    RequestsFor(3) + RequestsFor(n)

\* worlds over the graphs: no request fails, or one request of one category
CategoryWorlds(graphs, requests) ==
    {[fail_at |-> f, fail_cat |-> c, members |-> CategoryMembers, subcats |-> g] :
        g \in graphs,
        <<c, f>> \in {<<RootCategory, 0>>} \cup (Categories \X (1..requests))}

\* the info records the finders return, as far as the statistics read them
StatsInfos ==
    {[first_image |-> b, from_wikidata |-> FALSE] : b \in BOOLEAN} \cup
    {[first_image |-> b, first_p18 |-> p, from_wikidata |-> TRUE] : b, p \in BOOLEAN}

\* usage events of the given files on the given wikis
StatsEvents(files, wikis) ==
    {[file |-> f, fn |-> m, info |-> i, wiki |-> w] :
        f \in files, m \in {"update_statistics", "update_file_usage"},
        i \in StatsInfos, w \in wikis}

\* file names and texts for the matchers on their own
NameChars == {"a", "A", "_", " "}
Names == (SeqsUpTo(NameChars, MaxNameLen) \ {<<>>}) \cup {ImageY}
Prefixes == {<<>>, FilePrefix, LowerFilePrefix, Upper(FilePrefix)}
FileNames == {p \o n : p \in Prefixes, n \in Names}
Texts == SeqsUpTo(NameChars, MaxTextLen) \cup PageTexts

(***************************************************************************)
(* Specifications.                                                         *)
(***************************************************************************)
\* One file with at most one usage: every page history within MaxRevs, and
\* short item histories.
OneFile == FileLists(AllFiles, 1)
OneUsage == UsageResponses({WikiEn, WikiSpecies}, AllTitles, 1)
LongPageApis == PageApis(PageTexts, MaxRevs)
BriefItemApis == ItemApis(ItemHolds, MaxRunItemRevs)

Init == InitRun([limit_wikis : {0}, skip_wikidata : BOOLEAN])

Next ==
    \/ EnumerateCategory(OneFile)
    \/ StartFile(OneUsage)
    \/ AnalyzePage(LongPageApis)
    \/ LookupItem(ItemResponses)
    \/ LookupCurrentImage(ImageResponses)
    \/ LookupHistory(ImageResponses, BriefItemApis)
    \/ Finish

Spec == Init /\ [][Next]_vars

\* One file with at most one usage: short page histories, and every item
\* history within MaxItemRevs.
BriefPageApis == PageApis({TextX, TextNoImage}, MaxRunRevs)
LongItemApis == ItemApis(ItemHolds, MaxItemRevs)

InitItem == InitRun([limit_wikis : {0}, skip_wikidata : BOOLEAN])

NextItem ==
    \/ EnumerateCategory(OneFile)
    \/ StartFile(OneUsage)
    \/ AnalyzePage(BriefPageApis)
    \/ LookupItem(ItemResponses)
    \/ LookupCurrentImage(ImageResponses)
    \/ LookupHistory(ImageResponses, LongItemApis)
    \/ Finish

SpecItem == InitItem /\ [][NextItem]_vars

\* Several files, wikis and pages; short page and item histories: a page
\* shows the file X or no image, an item revision holds the image X or is
\* malformed, and a wbgetclaims request fails or answers with an image.
SeveralFiles == FileLists(AllFiles, MaxFiles)
SeveralUsages == UsageResponses({WikiEn, WikiDe}, AllTitles, MaxUsages)
ShortPageApis == BriefPageApis
ShortItemApis ==
    ItemApis({h \in ItemHolds : h \in {[image |-> ImageX, kind |-> "value"],
                                       [kind |-> "malformed"]}}, MaxRunItemRevs)
BatchImageResponses == {r \in ImageResponses : r.kind \in {"error", "value"}}

InitBatch == InitRun([limit_wikis : {0, 1}, skip_wikidata : BOOLEAN])

NextBatch ==
    \/ EnumerateCategory(SeveralFiles)
    \/ StartFile(SeveralUsages)
    \/ AnalyzePage(ShortPageApis)
    \/ LookupItem(ItemResponses)
    \/ LookupCurrentImage(BatchImageResponses)
    \/ LookupHistory(BatchImageResponses, ShortItemApis)
    \/ Finish

SpecBatch == InitBatch /\ [][NextBatch]_vars

\* The enumeration of a category graph, every request of which can fail;
\* the files found are used on no Wikipedia.
AllWorlds == CategoryWorlds(CategoryGraphs(MaxSubcats, MaxLinks), RequestsPerCategory(MaxSubcats))
AllDepths == 0..MaxDepth
NoUsageResponses == UsageResponses({WikiSpecies}, AllTitles, 1)

InitCategory == InitRun([limit_wikis : {0}, skip_wikidata : {TRUE}])

NextCategory ==
    \/ EnumerateCommons(AllWorlds, AllDepths)
    \/ StartFile(NoUsageResponses)
    \/ Finish

SpecCategory == InitCategory /\ [][NextCategory]_vars

\* A statistics tracker on its own, recording up to MaxEvents usage events.
AllEvents == StatsEvents(AllFiles, {WikiEn, WikiDe})

InitStats ==
    /\ pc = "stats"
    /\ args = [limit_wikis |-> 0, skip_wikidata |-> FALSE]
    /\ all_files = <<>>
    /\ file_idx = 0
    /\ worklist = <<>>
    /\ stats = initialize_statistics
    /\ results = <<>>
    /\ cur = NoUsage
    /\ info = None
    /\ lookups = <<>>
    /\ exit_status = None
    /\ call = [events |-> EmptyBag, fn |-> "statistics"]

NextStats == RecordUsage(AllEvents)

SpecStats == InitStats /\ [][NextStats]_vars

\* One file with several usages, each resolved with the fallback unless it is
\* skipped; short page histories, and item histories as in SpecBatch.
InitPair == InitRun([limit_wikis : {0}, skip_wikidata : BOOLEAN])

NextPair ==
    \/ EnumerateCategory(OneFile)
    \/ StartFile(SeveralUsages)
    \/ AnalyzePage(BriefPageApis)
    \/ LookupItem(ItemResponses)
    \/ LookupCurrentImage(ImageResponses)
    \/ LookupHistory(ImageResponses, ShortItemApis)
    \/ Finish

SpecPair == InitPair /\ [][NextPair]_vars

\* One file with several usages and requests that never fail: page histories
\* showing the files X and Y, item histories holding the images X and Y.
TallyPageApis == {a \in PageApis({TextX, TextY}, MaxTallyRevs) : a.fail_at = 0}
TallyItemApis ==
    {a \in ItemApis({h \in ItemHolds : h.kind = "value"}, MaxTallyRevs) : a.fail_at = 0}
TallyItemResponses == {r \in ItemResponses : r.kind # "error"}
TallyImageResponses == {r \in ImageResponses : r.kind = "value"}

InitTally == InitRun([limit_wikis : {0}, skip_wikidata : {FALSE}])

NextTally ==
    \/ EnumerateCategory(OneFile)
    \/ StartFile(SeveralUsages)
    \/ AnalyzePage(TallyPageApis)
    \/ LookupItem(TallyItemResponses)
    \/ LookupCurrentImage(TallyImageResponses)
    \/ LookupHistory(TallyImageResponses, TallyItemApis)
    \/ Finish

SpecTally == InitTally /\ [][NextTally]_vars

\* Categories that share files, enumerated without failures, and several
\* usages per file resolved from wikitext alone: the graphs have one
\* subcategory link, and the category C, whose file has no usage, is listed
\* nowhere.
SharedFileWorlds ==
    CategoryWorlds({g \in CategoryGraphs(MaxSubcats, 1) :
                        \A c \in Categories : \A i \in 1..Len(g[c]) : g[c][i] # "C"}, 0)
OncePageApis == PageApis({TextX, TextY}, MaxRunRevs)

InitOnce == InitRun([limit_wikis : {0}, skip_wikidata : {TRUE}])

NextOnce ==
    \/ EnumerateCommons(SharedFileWorlds, AllDepths)
    \/ StartFile(SeveralUsages)
    \/ AnalyzePage(OncePageApis)
    \/ Finish

SpecOnce == InitOnce /\ [][NextOnce]_vars

\* Several files used on up to three Wikipedias, with --limit-wikis 1, and
\* usages resolved from wikitext alone.
LimitUsages == UsageResponses({WikiEn, WikiDe, WikiFr}, AllTitles, MaxUsages)

InitLimit == InitRun([limit_wikis : {1}, skip_wikidata : {TRUE}])

NextLimit ==
    \/ EnumerateCategory(SeveralFiles)
    \/ StartFile(LimitUsages)
    \/ AnalyzePage(ShortPageApis)
    \/ Finish

SpecLimit == InitLimit /\ [][NextLimit]_vars

\* The enumeration of any category graph, cycles through the root and
\* categories listing themselves included; no request fails.
CyclicWorlds == CategoryWorlds(AnyGraphs(MaxSubcats, MaxLinks), 0)

InitCycles == InitRun([limit_wikis : {0}, skip_wikidata : {TRUE}])

NextCycles ==
    \/ EnumerateCommons(CyclicWorlds, AllDepths)
    \/ StartFile(NoUsageResponses)
    \/ Finish

SpecCycles == InitCycles /\ [][NextCycles]_vars

\* The text matchers on their own.
InitText ==
    /\ pc = "text"
    /\ args = [limit_wikis |-> 0, skip_wikidata |-> FALSE]
    /\ all_files = <<>>
    /\ file_idx = 0
    /\ worklist = <<>>
    /\ stats = initialize_statistics
    /\ results = <<>>
    /\ cur = NoUsage
    /\ info = None
    /\ lookups = <<>>
    /\ exit_status = None
    /\ call = NoCall

NextText ==
    \/ CallMatchesFile(Texts, FileNames)
    \/ CallHasImage(Texts)
    \/ CallCheckWikidataImage(Prefixes, Names)

SpecText == InitText /\ [][NextText]_vars

(***************************************************************************)
(* Properties.                                                             *)
(***************************************************************************)
\* list(get_page_revisions_wikitext_descending(...)): the whole stream the
\* generator hands to a consumer that drains it
RECURSIVE Drain(_, _)
Drain(api, g) ==
    LET nx == get_page_revisions_wikitext_descending(api, g)
    IN  IF nx.yield = None THEN <<>> ELSE <<nx.yield>> \o Drain(api, nx.gen)

Delivered(api) == Drain(api, GeneratorStart)

\* the revision references the file
References(rev, file_name) == matches_file_in_wikitext(rev.content, file_name)

\* the wikitext finder has run for the usage in cur
FinderRan == cur.wikitext # None

\* C1: for the stream handed to the wikitext finder, with n the newest revision
\* referencing the file and k the oldest one of the unbroken run of
\* referencing revisions that starts at n, the revision just older than k not
\* referencing it: the finder returns k's id and timestamp, and first_image
\* is true exactly when that older revision holds no image markup.
C1_IntroductionAtEndOfRun ==
    FinderRan =>
        LET s == Delivered(cur.api)
        IN  \A n \in 1..Len(s), k \in 1..Len(s) :
                ( /\ n <= k
                  /\ k < Len(s)
                  /\ \A i \in 1..(n - 1) : ~References(s[i], cur.file)
                  /\ \A i \in n..k : References(s[i], cur.file)
                  /\ ~References(s[k + 1], cur.file) )
                => /\ IsSome(cur.wikitext.info)
                   /\ cur.wikitext.info.introduced_revision_id = s[k].revid
                   /\ cur.wikitext.info.introduced_timestamp = s[k].timestamp
                   /\ cur.wikitext.info.first_image
                        = ~has_image_in_wikitext(s[k + 1].content)

\* C1 happens: a stream whose two newest revisions reference the file and
\* whose third shows another image; the finder returned the second.
C1_RunOfTwoBeforeOtherImage ==
    /\ FinderRan
    /\ LET s == Delivered(cur.api)
       IN  /\ Len(s) = 3
           /\ References(s[1], cur.file)
           /\ References(s[2], cur.file)
           /\ ~References(s[3], cur.file)
           /\ has_image_in_wikitext(s[3].content)
           /\ IsSome(cur.wikitext.info)
           /\ cur.wikitext.info.introduced_revision_id = s[2].revid
           /\ ~cur.wikitext.info.first_image

\* the example of C2: the finder was handed (id=3, "no image"),
\* (id=2, "[[File:X.jpg]]"), (id=1, "[[File:X.jpg]]") for File:X.jpg
ExampleStream ==
    /\ FinderRan
    /\ cur.file = FileX
    /\ Delivered(cur.api) = Revisions(<<TextNoImage, TextX, TextX>>)

\* C2 (as the code has it): for the example stream the resolver returns an
\* introduction at revision id=1, the oldest revision, with first_image true.
C2_ExampleIntroducedAtOldest ==
    ExampleStream =>
        /\ IsSome(info)
        /\ info.introduced_revision_id = 1
        /\ info.first_image

\* C2 (as stated): for the example stream the resolver returns an introduction
\* at revision id=2 with first_image true.
C2_ExampleIntroducedAtSecond ==
    ExampleStream =>
        /\ IsSome(info)
        /\ info.introduced_revision_id = 2
        /\ info.first_image

\* C2 happens: the example stream was resolved, with the fallback allowed.
C2_ExampleResolved ==
    /\ ExampleStream
    /\ ~args.skip_wikidata
    /\ pc = "files"
    /\ IsSome(info)

\* C3: if every revision of the page, the oldest included, references the
\* file, the wikitext finder returns the oldest revision's id and timestamp
\* with first_image true.
C3_OldestRevisionIsIntroduction ==
    ( /\ FinderRan
      /\ cur.api.revisions # <<>>
      /\ \A i \in 1..Len(cur.api.revisions) : References(cur.api.revisions[i], cur.file) )
    => LET oldest == cur.api.revisions[Len(cur.api.revisions)]
       IN  /\ IsSome(cur.wikitext.info)
           /\ cur.wikitext.info.introduced_revision_id = oldest.revid
           /\ cur.wikitext.info.introduced_timestamp = oldest.timestamp
           /\ cur.wikitext.info.first_image

\* C4: a scan that a failed request cut short is told apart from a scan that
\* reached the end: what the finder returns after the failure differs from
\* what it returns for a page whose whole history is the revisions it got.
C4_FailureIsDistinguished ==
    (FinderRan /\ cur.wikitext.failed)
    => cur.wikitext.info
         # find_earliest_wikitext_introduction(
               [fail_at |-> 0, revisions |-> cur.wikitext.consumed], cur.file).info

\* the spellings of a text the matcher is said not to tell apart
Respellings(s) ==
    {ReplaceChar(s, "_", " "), ReplaceChar(s, " ", "_"), Lower(s), Upper(s)}

\* C5: matches_file_in_wikitext returns the same result when every underscore
\* is swapped for a space, or every space for an underscore, or the letter
\* case is changed, in the content or in the file name.
C5_SeparatorAndCaseInvariance ==
    call.fn = "matches_file_in_wikitext" =>
        /\ \A c \in Respellings(call.content) :
                matches_file_in_wikitext(c, call.file_name) = call.result
        /\ \A f \in Respellings(call.file_name) :
                matches_file_in_wikitext(call.content, f) = call.result

\* C6: the wikitext finder is the first lookup of the resolver; when it
\* yields a record, that record is returned as it is and no other lookup was
\* made; any further lookup was made only after the wikitext finder yielded
\* none and without --skip-wikidata.
C6_WikitextFirst ==
    /\ lookups # <<>> => Head(lookups) = "find_earliest_wikitext_introduction"
    /\ (FinderRan /\ IsSome(cur.wikitext.info))
       => /\ lookups = <<"find_earliest_wikitext_introduction">>
          /\ info = cur.wikitext.info
    /\ Len(lookups) > 1 => (~IsSome(cur.wikitext.info) /\ ~args.skip_wikidata)

\* C6 happens: with the fallback allowed the wikitext finder found the file,
\* and the usage was concluded after that one lookup.
C6_FoundInWikitextWithFallbackAllowed ==
    /\ FinderRan
    /\ ~args.skip_wikidata
    /\ IsSome(cur.wikitext.info)
    /\ pc = "files"
    /\ Len(lookups) = 1
    /\ results # <<>>

\* the counters update_statistics maintains
UsageCounters(st) ==
    <<st.total_usages_by_file, st.total_usages_by_wiki, st.total_usages_by_lang,
      st.first_image_by_file, st.first_image_by_wiki, st.first_image_by_lang,
      st.wikidata_sourced_count, st.wikidata_sourced_by_wiki,
      st.first_p18_count, st.replaced_p18_count>>

\* no revision of the page references the file
NeverReferenced(api, file_name) ==
    \A i \in 1..Len(api.revisions) : ~References(api.revisions[i], file_name)

\* C7: analysing, with --skip-wikidata, a page of which no revision references
\* the file (a page without revisions included) yields none, appends no
\* result entry and changes no usage counter.
C7_NeverReferencedYieldsNone ==
    [][ ( /\ pc = "page"
          /\ args.skip_wikidata
          /\ cur'.api # None
          /\ NeverReferenced(cur'.api, cur'.file) )
        => /\ info' = None
           /\ results' = results
           /\ UsageCounters(stats') = UsageCounters(stats) ]_vars

\* C7 happens: with --skip-wikidata a page with revisions, none of which
\* references the file, was analysed and the run went on without a result.
C7_UnreferencedPageAnalysed ==
    /\ FinderRan
    /\ args.skip_wikidata
    /\ cur.api.revisions # <<>>
    /\ NeverReferenced(cur.api, cur.file)
    /\ pc = "files"
    /\ info = None
    /\ results = <<>>

\* find_wikidata_introduction got a history of the matched item
HistoryUsed == cur.history # None /\ ~cur.history.raised

\* C8: for a matched item whose history h (newest first) has n >= 1 entries,
\* the record has first_p18 = (n <= 1), previous_p18_images = the images of
\* h[2..n] in order, first_image = (no previous images), and the revision id
\* and timestamp of the newest entry.
C8_RecordFromHistory ==
    (HistoryUsed /\ Len(cur.history.value) >= 1) =>
        LET h == cur.history.value
            n == Len(h)
        IN  /\ IsSome(info)
            /\ info.first_p18 = (n <= 1)
            /\ info.previous_p18_images = [i \in 1..(n - 1) |-> h[i + 1].image]
            /\ info.first_image = (info.previous_p18_images = <<>>)
            /\ info.introduced_revision_id = h[1].revision_id
            /\ info.introduced_timestamp = h[1].timestamp

\* C8 happens: a history of three values gave a record with the two older
\* values as previous images, neither first_p18 nor first_image.
C8_HistoryOfThree ==
    /\ HistoryUsed
    /\ Len(cur.history.value) = 3
    /\ IsSome(info)
    /\ info.previous_p18_images = <<cur.history.value[2].image, cur.history.value[3].image>>
    /\ ~info.first_p18
    /\ ~info.first_image

\* the same name but for letter case and underscores versus spaces
SameName(a, b) == ReplaceChar(Lower(a), "_", " ") = ReplaceChar(Lower(b), "_", " ")

\* C9: check_if_file_matches_wikidata_image succeeds for a file name made of
\* a file-namespace prefix, in any letter case, and a name, against a value
\* that is that name but for letter case and underscores versus spaces.
C9_PrefixedNameMatches ==
    ( /\ call.fn = "check_if_file_matches_wikidata_image"
      /\ call.prefix # <<>>
      /\ SameName(call.name, call.wikidata_image) )
    => call.result

\* C10: a failure while one usage or one item is processed never stops the
\* batch: the run does not exit because of it with pages of the file or files
\* of the category still to be processed.
C10_UsageFailureNeverStopsBatch ==
    ~( /\ pc = "exit"
       /\ exit_status.reason = "usage failed"
       /\ (Tail(worklist) # <<>> \/ file_idx < Len(all_files)) )


\* get_commons_category_files was called and a request of it failed
EnumerationFailed == call.fn = "get_commons_category_files" /\ call.failed

\* C11: once a request made during the category enumeration has failed (for
\* the root or a subcategory, on any result page), the run is at sys.exit
\* with a non-zero status: no file is processed and main() never returns.
C11_EnumerationFailureAborts ==
    EnumerationFailed => (pc = "exit" /\ exit_status.status # 0)


\* C12: whenever find_wikidata_introduction obtained a current image for the
\* item and built its record from the history, that history is not empty and
\* the record's timestamp is not the "Unknown" of an empty history.
C12_HistoryNeverEmpty ==
    (HistoryUsed /\ Truthy(cur.wikidata_image)) =>
        /\ cur.history.value # <<>>
        /\ info.introduced_timestamp # [text |-> "Unknown"]

\* C13: in every history get_image_history_for_item returned, two consecutive
\* entries hold different images.
C13_ConsecutiveEntriesDistinct ==
    HistoryUsed =>
        \A i \in 1..(Len(cur.history.value) - 1) :
            cur.history.value[i].image # cur.history.value[i + 1].image

\* a history of two entries was returned for an item whose revisions span
\* two responses and hold the same image in two consecutive revisions
C13_RepeatedValueAcrossBatches ==
    /\ HistoryUsed
    /\ Len(cur.history.value) >= 2
    /\ LET revs == cur.item_api.api.revisions
       IN  /\ Len(revs) > BatchSize
           /\ \E i \in 1..(Len(revs) - 1) :
                /\ revs[i].kind = "value" /\ revs[i + 1].kind = "value"
                /\ revs[i].image = revs[i + 1].image


\* C14: every result entry with from_wikidata = False has wikidata_item None,
\* first_p18 None and previous_p18_images [].
C14_WikitextEntryHasNoWikidataFields ==
    \A i \in 1..Len(results) :
        ~results[i].from_wikidata =>
            /\ results[i].wikidata_item = None
            /\ results[i].first_p18 = None
            /\ results[i].previous_p18_images = <<>>

\* a run in which the fallback was allowed recorded an entry that did not
\* come from Wikidata
C14_WikitextEntryRecorded ==
    /\ ~args.skip_wikidata
    /\ \E i \in 1..Len(results) :
        ~results[i].from_wikidata /\ results[i].introduced_revision_id > 0


\* the events of a bag recorded in one order on the tracker st
RECURSIVE Replay(_, _)
Replay(events, st) ==
    IF BagToSet(events) = {} THEN st
    ELSE LET e == CHOOSE e \in BagToSet(events) : TRUE
         IN  Replay(events (-) SetToBag({e}), Record(e, st))

\* C15: in whatever order a multiset of usage events was recorded, the
\* tracker holds the counters that recording the multiset in one fixed order
\* gives: the final counters depend on the multiset alone.
C15_CountersIndependentOfOrder ==
    pc = "stats" => stats = Replay(call.events, initialize_statistics)

\* three events were recorded, among them two of one file on one wiki, one a
\* first image found in wikitext and one a replaced image from Wikidata
C15_MixedEventsRecorded ==
    /\ pc = "stats"
    /\ BagCardinality(call.events) = 3
    /\ \E e1, e2 \in BagToSet(call.events) :
        /\ e1.file = e2.file /\ e1.wiki = e2.wiki
        /\ e1.info = [first_image |-> TRUE, from_wikidata |-> FALSE]
        /\ e2.info = [first_image |-> FALSE, first_p18 |-> FALSE, from_wikidata |-> TRUE]


\* where main() is while a usage is being resolved
ResolverPcs == {"page", "item", "current", "history"}

\* C16: a step of the resolution of a usage that does not conclude the usage
\* with a record (the resolver goes on to its next lookup, or returns none for
\* want of an item, of a P18 value or of a match) changes none of the usage
\* counters and appends no result entry.
C16_NoIntroductionChangesNothing ==
    [][ ( /\ pc \in ResolverPcs
          /\ ~(worklist' # worklist /\ IsSome(info')) )
        => /\ results' = results
           /\ UsageCounters(stats') = UsageCounters(stats) ]_vars

\* after a usage was recorded, another one was resolved down to an item
\* whose image is not the file, and concluded without an introduction
C16_UnmatchedUsageAfterRecordedOne ==
    /\ pc \in {"files", "page"}
    /\ results # <<>>
    /\ info = None
    /\ Len(lookups) = 3
    /\ Truthy(cur.wikidata_image)
    /\ ~check_if_file_matches_wikidata_image(cur.file, cur.wikidata_image)


\* the result entries of the usage of file on page of wiki
EntriesOf(wiki, page, file) ==
    {i \in 1..Len(results) :
        results[i].wiki = wiki /\ results[i].page = page /\ results[i].file = file}

\* the result entries of a file
EntriesOfFile(file) == {i \in 1..Len(results) : results[i].file = file}

\* the result entries of a wiki
EntriesOfWiki(wiki) == {i \in 1..Len(results) : results[i].wiki = wiki}

\* C17: within a run no file is processed twice and no usage of the file
\* being processed is queued twice; a usage still to be resolved has no result
\* entry yet; no (wiki, page, file) has more than one result entry; and the
\* total-usage counters of a file and of a wiki count exactly its entries.
C17_EachUsageResolvedOnce ==
    /\ \A i, j \in 1..Len(all_files) : all_files[i] = all_files[j] => i = j
    /\ \A i, j \in 1..Len(worklist) : worklist[i] = worklist[j] => i = j
    /\ pc \in ResolverPcs =>
            \A i \in 1..Len(worklist) :
                EntriesOf(worklist[i].wiki, worklist[i].page, all_files[file_idx]) = {}
    /\ \A i \in 1..Len(results) :
            EntriesOf(results[i].wiki, results[i].page, results[i].file) = {i}
    /\ \A f \in AllFiles : stats.total_usages_by_file[f] = Cardinality(EntriesOfFile(f))
    /\ \A w \in AllWikis : stats.total_usages_by_wiki[w] = Cardinality(EntriesOfWiki(w))


\* a run done: the file X is listed by two of the categories fetched, its
\* page was reported twice by global usage, and it has its result entry
C17_SharedFileAndRepeatedPage ==
    /\ pc = "done"
    /\ call.fn = "get_commons_category_files"
    /\ \E i, j \in 1..Len(call.fetched) :
        /\ i # j
        /\ \E k \in 1..Len(call.world.members[call.fetched[i].cat]) :
                call.world.members[call.fetched[i].cat][k] = FileX
        /\ \E k \in 1..Len(call.world.members[call.fetched[j].cat]) :
                call.world.members[call.fetched[j].cat][k] = FileX
    /\ FinderRan
    /\ cur.file = FileX
    /\ Len(cur.usage) = 2 /\ cur.usage[1] = cur.usage[2]
    /\ EntriesOf(cur.usage[1].wiki, cur.usage[1].title, FileX) # {}


\* the categories at most k subcategory links away from the root
RECURSIVE Within(_, _)
Within(subcats, k) ==
    IF k = 0 THEN {RootCategory}
    ELSE LET nearer == Within(subcats, k - 1)
         IN  nearer \cup {subcats[c][i] : <<c, i>> \in
                            {<<c, i>> \in nearer \X (1..MaxSubcats + 1) : i <= Len(subcats[c])}}

\* the files a category lists
FilesOf(members, c) ==
    {members[c][i] : i \in {i \in 1..Len(members[c]) : StartsWith(members[c][i], FilePrefix)}}

\* C18: when no request failed, get_commons_category_files(category, depth)
\* returns every file of every category at most depth subcategory links away
\* from the root category.
C18_FilesOfEveryCategoryWithinDepth ==
    (call.fn = "get_commons_category_files" /\ ~call.failed) =>
        \A c \in Within(call.world.subcats, call.depth) :
            \A file \in FilesOf(call.world.members, c) :
                \E i \in 1..Len(call.result) : call.result[i] = file


\* process_files has just queued the usages of a file: the globalusage
\* entries of the file are known and none of its pages was analysed yet
UsagesQueued == cur.usage # <<>> /\ cur.file = None

\* the Wikipedias among the wikis of globalusage entries
WikisUsing(usage) ==
    {usage[i].wiki : i \in {i \in 1..Len(usage) : IsWikipedia(usage[i].wiki)}}

\* the usage count the run keeps for a wiki
UsageCount(wiki) ==
    LET at == {i \in 1..Len(stats.usage_by_wiki) : stats.usage_by_wiki[i].wiki = wiki}
    IN  IF at = {} THEN 0 ELSE stats.usage_by_wiki[CHOOSE i \in at : TRUE].count

\* C19: with --limit-wikis N, the usages queued for a file used on more than
\* N Wikipedias are those on exactly N of the wikis using it, none of which
\* has a smaller usage count than a wiki left out; the usages queued for a
\* file used on at most N Wikipedias are those on all of them.
C19_LimitKeepsTopWikisOfFile ==
    (UsagesQueued /\ args.limit_wikis # 0) =>
        LET used     == WikisUsing(cur.usage)
            analysed == {worklist[i].wiki : i \in 1..Len(worklist)}
        IN  IF Cardinality(used) > args.limit_wikis
            THEN /\ Cardinality(analysed) = args.limit_wikis
                 /\ analysed \subseteq used
                 /\ \A a \in analysed, u \in used \ analysed :
                        UsageCount(a) >= UsageCount(u)
            ELSE analysed = used


\* the lookups of the resolver in the order of the code
AllLookups ==
    <<"find_earliest_wikitext_introduction", "get_wikidata_item_for_page",
      "get_current_image_for_item", "get_image_history_for_item">>

\* C20: the lookups made for a usage are the first ones of AllLookups, in that
\* order; the current image was requested only for a resolved item and the
\* history only for a current image that matches the file; and when the item,
\* the current image or the match was missing, the finder returned none and
\* made no later lookup.
C20_FallbackStepsInOrder ==
    /\ Len(lookups) <= 4
    /\ lookups = SubSeq(AllLookups, 1, Len(lookups))
    /\ Len(lookups) >= 3 => Truthy(cur.wikidata_item)
    /\ Len(lookups) = 4 =>
            /\ Truthy(cur.wikidata_image)
            /\ check_if_file_matches_wikidata_image(cur.file, cur.wikidata_image)
    /\ (Len(lookups) = 2 /\ ~Truthy(cur.wikidata_item)) =>
            (info = None /\ pc \notin {"current", "history"})
    /\ (Len(lookups) = 3 /\ ~Truthy(cur.wikidata_image)) =>
            (info = None /\ pc # "history")
    /\ (Len(lookups) = 3 /\ Truthy(cur.wikidata_image)
          /\ ~check_if_file_matches_wikidata_image(cur.file, cur.wikidata_image)) =>
            (info = None /\ pc # "history")

\* all four lookups were made for a usage, which has its record from Wikidata
C20_AllLookupsMade ==
    /\ lookups = AllLookups
    /\ pc = "files"
    /\ IsSome(info)
    /\ info.from_wikidata
    /\ info.wikidata_item = cur.wikidata_item


\* C21: when get_image_history_for_item returned a history, no entry of it
\* was taken from a revision older than a revision without P18 claim that
\* follows, in the item's history, a revision with a P18 value.
C21_NoClaimStopsCollection ==
    HistoryUsed =>
        LET revs == cur.item_api.api.revisions
        IN  \A i \in 1..Len(revs) :
                (revs[i].kind = "noclaim" /\ \E j \in 1..(i - 1) : revs[j].kind = "value")
                => \A k \in 1..Len(cur.history.value) :
                        \/ cur.history.value[k].revision_id = 0
                        \/ cur.history.value[k].revision_id > revs[i].revid


\* the requests it takes to be handed the revision with the given id
RequestsUpTo(api, revid) ==
    RequestsFor(Len(api.revisions) - revid + 1)

\* C22: when, among the revisions the wikitext finder consumed, one that
\* references the file is followed by one that does not, the latter is the
\* last revision consumed, the finder returned its record there, and the
\* requests made are those needed to be handed that revision.
C22_ReturnsAtFirstOlderWithoutFile ==
    FinderRan =>
        LET c == cur.wikitext.consumed
        IN  \A i \in 1..Len(c), j \in 1..Len(c) :
                (i < j /\ References(c[i], cur.file) /\ ~References(c[j], cur.file))
                => /\ j = Len(c)
                   /\ cur.wikitext.early
                   /\ IsSome(cur.wikitext.info)
                   /\ cur.wikitext.requests = RequestsUpTo(cur.api, c[j].revid)

\* the finder returned at a revision without the file while the page has
\* older revisions, in a response that was never requested
C22_ReturnedBeforeLastResponse ==
    /\ FinderRan
    /\ cur.wikitext.early
    /\ Len(cur.wikitext.consumed) < Len(Delivered(cur.api))
    /\ cur.api.fail_at = 0
    /\ cur.wikitext.requests < RequestsFor(Len(cur.api.revisions))


\* the sum of a counter kept per key
RECURSIVE SumOver(_, _)
SumOver(counter, keys) ==
    IF keys = {} THEN 0
    ELSE LET k == CHOOSE k \in keys : TRUE
         IN  counter[k] + SumOver(counter, keys \ {k})

\* C23: the total-usage counters summed over the files, over the wikis and
\* over the languages each equal the number of result entries, and no
\* first-image counter exceeds the total-usage counter of its key.
C23_TotalsMatchResults ==
    /\ SumOver(stats.total_usages_by_file, AllFiles) = Len(results)
    /\ SumOver(stats.total_usages_by_wiki, AllWikis) = Len(results)
    /\ SumOver(stats.total_usages_by_lang, AllLangs) = Len(results)
    /\ \A f \in AllFiles : stats.first_image_by_file[f] <= stats.total_usages_by_file[f]
    /\ \A w \in AllWikis : stats.first_image_by_wiki[w] <= stats.total_usages_by_wiki[w]
    /\ \A l \in AllLangs : stats.first_image_by_lang[l] <= stats.total_usages_by_lang[l]

\* two usages on different wikis were recorded, one of them not a first image
C23_TwoUsagesOneFirstImage ==
    /\ Len(results) = 2
    /\ results[1].wiki # results[2].wiki
    /\ results[1].first_image # results[2].first_image
    /\ pc = "files"


\* C24: wikidata_sourced_count equals first_p18_count + replaced_p18_count,
\* the sum over the wikis of wikidata_sourced_by_wiki, and the number of
\* result entries with from_wikidata = True.
C24_WikidataCountersAgree ==
    /\ stats.wikidata_sourced_count = stats.first_p18_count + stats.replaced_p18_count
    /\ stats.wikidata_sourced_count = SumOver(stats.wikidata_sourced_by_wiki, AllWikis)
    /\ stats.wikidata_sourced_count =
            Cardinality({i \in 1..Len(results) : results[i].from_wikidata})

\* two usages were recorded from Wikidata, one a first P18 value and one
\* that replaced another image
C24_FirstAndReplacedRecorded ==
    /\ Len(results) = 2
    /\ results[1].from_wikidata /\ results[2].from_wikidata
    /\ results[1].first_p18 # results[2].first_p18
    /\ stats.replaced_p18_count = 1


\* C25: every record find_wikidata_introduction returned, and every result
\* entry made from one, has first_image equal to first_p18.
C25_FirstImageIsFirstP18 ==
    /\ (HistoryUsed /\ IsSome(info)) => info.first_image = info.first_p18
    /\ \A i \in 1..Len(results) :
            results[i].from_wikidata => results[i].first_image = results[i].first_p18

\* an entry was recorded from Wikidata for an image that replaced one other
C25_ReplacedImageRecorded ==
    /\ HistoryUsed
    /\ Len(results) = 1
    /\ results[1].from_wikidata
    /\ ~results[1].first_p18
    /\ Len(results[1].previous_p18_images) = 1


\* the titles the categories fetched listed, in the order they were listed
RECURSIVE Listed(_, _)
Listed(members, fetched) ==
    IF fetched = <<>> THEN <<>>
    ELSE members[Head(fetched).cat] \o Listed(members, Tail(fetched))

\* where a title occurs first in a list
FirstIndex(list, title) ==
    CHOOSE i \in 1..Len(list) : list[i] = title /\ \A j \in 1..(i - 1) : list[j] # title

\* C26: the enumeration of a category graph, cyclic or not, returns after
\* fetching each category at most once and none deeper than depth; when no
\* request failed, the list returned holds exactly the titles listed that
\* start with "File:", each once, in the order of their first occurrence.
C26_EnumerationBoundedAndClean ==
    call.fn = "get_commons_category_files" =>
        /\ \A i, j \in 1..Len(call.fetched) :
                call.fetched[i].cat = call.fetched[j].cat => i = j
        /\ \A i \in 1..Len(call.fetched) : call.fetched[i].depth <= call.depth
        /\ \A i \in 1..Len(call.result) : StartsWith(call.result[i], FilePrefix)
        /\ \A i, j \in 1..Len(call.result) : call.result[i] = call.result[j] => i = j
        /\ ~call.failed =>
                LET listed == Listed(call.world.members, call.fetched)
                IN  /\ \A k \in 1..Len(listed) :
                            StartsWith(listed[k], FilePrefix) =>
                                \E i \in 1..Len(call.result) : call.result[i] = listed[k]
                    /\ \A i \in 1..Len(call.result) :
                            \E k \in 1..Len(listed) : listed[k] = call.result[i]
                    /\ \A i, j \in 1..Len(call.result) :
                            i < j => FirstIndex(listed, call.result[i]) <
                                     FirstIndex(listed, call.result[j])

\* a graph with a cycle through the root was enumerated two levels deep: the
\* root lists A, A lists the root, and both share a file
C26_CycleThroughRootEnumerated ==
    /\ call.fn = "get_commons_category_files"
    /\ call.depth >= 2
    /\ call.world.subcats["Root"] = <<"A">>
    /\ call.world.subcats["A"] = <<"Root">>
    /\ Len(call.fetched) = 2
    /\ call.result = <<FileX, FileY>>
    /\ pc = "done"

=============================================================================
